---- MODULE Spec2Model ----
(***************************************************************************)
(* Model of gulpfile.babel.js of the neo4j-javascript-driver: the gulp 4   *)
(* task chains (build, sandbox install, server and browser test runs, the  *)
(* TypeScript declaration check) and the browserify require transform that *)
(* rewrites '/node' module references to '/browser'.                       *)
(*                                                                         *)
(* One action of the model is one turn of the node event loop: the         *)
(* callback that runs plus the promise reactions it schedules.  Strings    *)
(* are sequences of one-character strings.                                 *)
(***************************************************************************)
EXTENDS Integers, Sequences, FiniteSets, TLC

VARIABLES
  cmd,          \* the task named on the gulp command line
  st,           \* st[i]: state of the i-th task function of the flattened chain
  exit,         \* exit status of the process, NoExit while it is alive
  failed,       \* run-ts-declaration-tests: var failed
  tsDiags,      \* number of 'error' events the TypeScript stream has emitted
  tsPhase,      \* progress of the run-ts-declaration-tests pipeline
  nDiags,       \* number of diagnostics the checked declarations contain
  sandbox,      \* content of build/sandbox
  installPhase, \* progress of the install-driver-into-sandbox pipeline
  serverResult, \* outcome of the jasmine run of test-nodejs
  pendingFiles, \* build-browser-test: test files gulp.src has still to emit
  testFiles,    \* build-browser-test: const testFiles
  bbtPhase,     \* progress of the build-browser-test pipeline
  bundlerCalls, \* entry lists given to browserify by build-browser-test
  testBundle,   \* build/browser/neo4j-web.test.js
  appBundler,   \* build-browser: const appBundler (the bundle stream)
  webJs,        \* lib/browser/neo4j-web.js
  webMinJs,     \* lib/browser/neo4j-web.min.js
  logged,       \* number of log.error calls
  launched,     \* browsers a karma server was started for
  browserResult,\* exit code the karma server reported, NoExit before
  cbCalls,      \* how often runKarma has called the task's completion callback
  engine,       \* the browser engine selected on the command line
  requireArg,   \* require transform: args[0] of the require call
  out1,         \* module reference after the transform ran once
  out2,         \* module reference after the transform ran on its own output
  applied,      \* how often the transform has run on the reference
  libRef,       \* the module reference in the module tree buildNode has written
  libBuilt,     \* whether buildNode has compiled the file of the reference
  version,      \* set: the value of --version (empty when not given)
  versionGiven, \* set: whether the command line holds --version
  files,        \* set: the content of each file of the working tree
  files0,       \* set: the content of each file before the task
  staged,       \* set: the vinyl files in the pipeline, by name
  touched,      \* set: the files the task has read or written
  setPhase,     \* set: progress of the task
  path,         \* test discovery: a file below ./test
  srcTask,      \* test discovery: the task whose gulp.src has looked at the file
  matched       \* test discovery: whether gulp.src has emitted the file

vars == <<cmd, st, exit, failed, tsDiags, tsPhase, nDiags, sandbox, installPhase,
          serverResult, pendingFiles, testFiles, bbtPhase, bundlerCalls, testBundle,
          appBundler, webJs, webMinJs, logged, launched, browserResult,
          cbCalls, engine, requireArg, out1, out2, applied, libRef, libBuilt,
          version, versionGiven, files, files0, staged, touched, setPhase,
          path, srcTask, matched>>

gulpVars == <<cmd, st, exit, failed, tsDiags, tsPhase, nDiags, sandbox, installPhase,
              serverResult, pendingFiles, testFiles, bbtPhase, bundlerCalls, testBundle,
              appBundler, webJs, webMinJs, logged, launched, browserResult,
              cbCalls, engine>>

transformVars == <<requireArg, out1, out2, applied, libRef, libBuilt>>

setVars == <<version, versionGiven, files, files0, staged, touched, setPhase>>

globVars == <<path, srcTask, matched>>

\* what a gulp run of the modelled commands leaves alone
otherVars == <<transformVars, setVars, globVars>>

----------------------------------------------------------------------------
(* Bounds *)

\* most diagnostics the TypeScript compiler reports in one run
MaxDiagnostics == 2

\* most test files test/**/*.test.js holds
MaxTestFiles == 2

\* largest exit code the karma server hands to its callback
MaxKarmaExit == 2

\* most fragments a module reference is put together from
MaxFrags == 3

NoExit == -1

----------------------------------------------------------------------------
(* The task graph *)

\* gulp.series(a, b): the functions of a, then those of b
series(a, b) == a \o b

nodejs == <<"nodejs">>

installDriverIntoSandbox == series(nodejs, <<"install-driver-into-sandbox">>)

testNodejs == series(installDriverIntoSandbox, <<"test-nodejs">>)

runBrowserTestChrome == <<"run-browser-test-chrome">>

runBrowserTestFirefox == <<"run-browser-test-firefox">>

runBrowserTestEdge == <<"run-browser-test-edge">>

runBrowserTestIe == <<"run-browser-test-ie">>

\* run-browser-test wired to every engine
runBrowserTestAllEngines ==
  runBrowserTestChrome \o runBrowserTestFirefox \o runBrowserTestEdge \o runBrowserTestIe

\* gulp.series('run-browser-test-firefox')
runBrowserTest == runBrowserTestFirefox

\* the browsers a run-browser-test-* task is registered for
Engines == {"chrome", "firefox", "edge", "ie"}

\* the name of the task that runs karma for a browser
karmaTask(b) ==
  CASE b = "chrome" -> "run-browser-test-chrome"
    [] b = "firefox" -> "run-browser-test-firefox"
    [] b = "edge" -> "run-browser-test-edge"
    [] b = "ie" -> "run-browser-test-ie"

browser == series(<<"build-browser-test">>, <<"build-browser">>)

all == series(nodejs, browser)

testBrowser == series(all, runBrowserTest)

test == series(series(<<"run-ts-declaration-tests">>, testNodejs), testBrowser)

Commands == {"test", "test-browser", "test-nodejs", "install-driver-into-sandbox",
             "all", "browser", "run-browser-test", "run-browser-test-chrome",
             "run-browser-test-firefox", "run-browser-test-edge",
             "run-browser-test-ie"}

\* the task functions a command runs, in the order gulp.series calls them
Chain(c) ==
  CASE c = "test" -> test
    [] c = "test-browser" -> testBrowser
    [] c = "test-nodejs" -> testNodejs
    [] c = "install-driver-into-sandbox" -> installDriverIntoSandbox
    [] c = "all" -> all
    [] c = "browser" -> browser
    [] c = "run-browser-test" -> runBrowserTest
    [] c = "run-browser-test-chrome" -> runBrowserTestChrome
    [] c = "run-browser-test-firefox" -> runBrowserTestFirefox
    [] c = "run-browser-test-edge" -> runBrowserTestEdge
    [] c = "run-browser-test-ie" -> runBrowserTestIe
    [] OTHER -> <<>>

Task(i) == Chain(cmd)[i]

\* gulp.parallel in place of gulp.series: every function is started at once
parallelReady(i) == TRUE

\* gulp.series starts a function when all functions before it have signalled completion
seriesReady(i) == \A j \in 1..(i - 1) : st[j] = "done"

CanStart(i, name) ==
  /\ exit = NoExit
  /\ i \in DOMAIN st
  /\ Task(i) = name
  /\ st[i] = "pending"
  /\ seriesReady(i)

Running(i, name) ==
  /\ exit = NoExit
  /\ i \in DOMAIN st
  /\ Task(i) = name
  /\ st[i] = "running"

\* process.exit(code): the exit status is the low byte of the code
ExitStatus(code) == code % 256

----------------------------------------------------------------------------
(* The initial state of a gulp run *)

IdleTransform ==
  /\ requireArg = <<>>
  /\ out1 = <<>>
  /\ out2 = <<>>
  /\ applied = 0
  /\ libRef = <<>>
  /\ libBuilt = FALSE

IdleSet ==
  /\ version = <<>>
  /\ versionGiven = FALSE
  /\ files = <<>>
  /\ files0 = <<>>
  /\ staged = <<>>
  /\ touched = {}
  /\ setPhase = "idle"

IdleGlob ==
  /\ path = <<>>
  /\ srcTask = "none"
  /\ matched = FALSE

Init ==
  /\ cmd \in Commands
  /\ st = [i \in 1..Len(Chain(cmd)) |-> "pending"]
  /\ exit = NoExit
  /\ failed = FALSE
  /\ tsDiags = 0
  /\ tsPhase = "idle"
  /\ nDiags = 0
  /\ sandbox \in {{}, {"stale"}}
  /\ installPhase = "idle"
  /\ serverResult = "none"
  /\ pendingFiles = <<>>
  /\ testFiles = <<>>
  /\ bbtPhase = "idle"
  /\ bundlerCalls = <<>>
  /\ testBundle = "absent"
  /\ appBundler = "idle"
  /\ webJs = "absent"
  /\ webMinJs = "absent"
  /\ logged = 0
  /\ launched = {}
  /\ browserResult = NoExit
  /\ cbCalls = 0
  /\ engine \in Engines
  /\ IdleTransform
  /\ IdleSet
  /\ IdleGlob

----------------------------------------------------------------------------
(* How gulp ends a task function *)

\* the function signalled completion: the series goes on
Succeed(i) == st' = [st EXCEPT ![i] = "done"] /\ UNCHANGED exit

\* the function signalled an error: the series stops and gulp-cli exits with 1
Fail(i) == st' = [st EXCEPT ![i] = "error"] /\ exit' = ExitStatus(1)

Begin(i) == st' = [st EXCEPT ![i] = "running"] /\ UNCHANGED exit

----------------------------------------------------------------------------
(* run-ts-declaration-tests *)

tsVars == <<failed, tsDiags, tsPhase, nDiags>>

RunTsDeclarationTests(i) ==
  /\ CanStart(i, "run-ts-declaration-tests")
  /\ Begin(i)
  /\ failed' = FALSE
  /\ tsDiags' = 0
  /\ tsPhase' = "checking"
  /\ nDiags' \in 0..MaxDiagnostics
  /\ UNCHANGED <<cmd, engine, sandbox, installPhase, serverResult, pendingFiles, testFiles,
                 bbtPhase, bundlerCalls, testBundle, appBundler, webJs, webMinJs,
                 logged, launched, browserResult, cbCalls, otherVars>>

\* .on('error', function () { failed = true })
TsError(i) ==
  /\ Running(i, "run-ts-declaration-tests")
  /\ tsPhase = "checking"
  /\ tsDiags < nDiags
  /\ tsDiags' = tsDiags + 1
  /\ failed' = TRUE
  /\ UNCHANGED <<cmd, engine, st, exit, tsPhase, nDiags, sandbox, installPhase, serverResult,
                 pendingFiles, testFiles, bbtPhase, bundlerCalls, testBundle,
                 appBundler, webJs, webMinJs, logged, launched, browserResult, cbCalls,
                 otherVars>>

\* the 'finish' handler without its test of failed
tsOnFinishNoExit(f) == "pipe"

\* .on('finish', function () { if (failed) { ...; process.exit(1) } })
tsOnFinish(f) == IF f THEN "exit" ELSE "pipe"

TsFinish(i) ==
  /\ Running(i, "run-ts-declaration-tests")
  /\ tsPhase = "checking"
  /\ tsDiags = nDiags
  /\ IF tsOnFinish(failed) = "exit"
       THEN tsPhase' = "exited" /\ exit' = ExitStatus(1)
       ELSE tsPhase' = "writing" /\ UNCHANGED exit
  /\ UNCHANGED <<cmd, engine, st, failed, tsDiags, nDiags, sandbox, installPhase, serverResult,
                 pendingFiles, testFiles, bbtPhase, bundlerCalls, testBundle,
                 appBundler, webJs, webMinJs, logged, launched, browserResult, cbCalls,
                 otherVars>>

\* gulp.dest('build/test/types') ends: the returned stream is over
TsDestEnd(i) ==
  /\ Running(i, "run-ts-declaration-tests")
  /\ tsPhase = "writing"
  /\ tsPhase' = "written"
  /\ Succeed(i)
  /\ UNCHANGED <<cmd, engine, failed, tsDiags, nDiags, sandbox, installPhase, serverResult,
                 pendingFiles, testFiles, bbtPhase, bundlerCalls, testBundle,
                 appBundler, webJs, webMinJs, logged, launched, browserResult, cbCalls,
                 otherVars>>

----------------------------------------------------------------------------
(* nodejs *)

Nodejs(i) ==
  /\ CanStart(i, "nodejs")
  /\ Begin(i)
  /\ UNCHANGED <<cmd, engine, tsVars, sandbox, installPhase, serverResult, pendingFiles,
                 testFiles, bbtPhase, bundlerCalls, testBundle, appBundler, webJs,
                 webMinJs, logged, launched, browserResult, cbCalls, otherVars>>

\* the stream buildNode returns ends, or babel emits an error on it
NodejsEnd(i, ok) ==
  /\ Running(i, "nodejs")
  /\ IF ok THEN Succeed(i) ELSE Fail(i)
  /\ UNCHANGED <<cmd, engine, tsVars, sandbox, installPhase, serverResult, pendingFiles,
                 testFiles, bbtPhase, bundlerCalls, testBundle, appBundler, webJs,
                 webMinJs, logged, launched, browserResult, cbCalls, otherVars>>

----------------------------------------------------------------------------
(* install-driver-into-sandbox *)

\* a directory that is made when missing and otherwise left as it is
ensureDirSync(dir) == dir

\* fs.emptyDirSync(testDir): the directory exists and holds nothing
emptyDirSync(dir) == {}

\* fs.emptyDirSync(testDir), then the pipeline is set up
InstallDriverIntoSandbox(i) ==
  /\ CanStart(i, "install-driver-into-sandbox")
  /\ Begin(i)
  /\ sandbox' = emptyDirSync(sandbox)
  /\ installPhase' = "emptied"
  /\ UNCHANGED <<cmd, engine, tsVars, serverResult, pendingFiles, testFiles, bbtPhase,
                 bundlerCalls, testBundle, appBundler, webJs, webMinJs, logged,
                 launched, browserResult, cbCalls, otherVars>>

\* file('package.json', ...).pipe(gulp.dest(testDir))
WritePackageJson(i) ==
  /\ Running(i, "install-driver-into-sandbox")
  /\ installPhase = "emptied"
  /\ sandbox' = sandbox \cup {"package.json"}
  /\ installPhase' = "descriptor"
  /\ UNCHANGED <<cmd, engine, st, exit, tsVars, serverResult, pendingFiles, testFiles,
                 bbtPhase, bundlerCalls, testBundle, appBundler, webJs, webMinJs,
                 logged, launched, browserResult, cbCalls, otherVars>>

\* an install step whose failure is only logged
installOutcomeLogged(ok) == "installed"

\* .pipe(install()): the returned stream ends, or emits the error of the install
installOutcome(ok) == IF ok THEN "installed" ELSE "failed"

Install(i, ok) ==
  /\ Running(i, "install-driver-into-sandbox")
  /\ installPhase = "descriptor"
  /\ installPhase' = IF ok THEN "installed" ELSE "failed"
  /\ sandbox' = IF ok THEN sandbox \cup {"node_modules"} ELSE sandbox
  /\ IF installOutcome(ok) = "installed" THEN Succeed(i) ELSE Fail(i)
  /\ UNCHANGED <<cmd, engine, tsVars, serverResult, pendingFiles, testFiles, bbtPhase,
                 bundlerCalls, testBundle, appBundler, webJs, webMinJs, logged,
                 launched, browserResult, cbCalls, otherVars>>

----------------------------------------------------------------------------
(* test-nodejs *)

TestNodejs(i) ==
  /\ CanStart(i, "test-nodejs")
  /\ Begin(i)
  /\ UNCHANGED <<cmd, engine, tsVars, sandbox, installPhase, serverResult, pendingFiles,
                 testFiles, bbtPhase, bundlerCalls, testBundle, appBundler, webJs,
                 webMinJs, logged, launched, browserResult, cbCalls, otherVars>>

\* the jasmine stream ends (logActiveNodeHandles logs nothing), or emits 'Tests failed'
JasmineEnd(i, ok) ==
  /\ Running(i, "test-nodejs")
  /\ serverResult' = IF ok THEN "pass" ELSE "fail"
  /\ IF ok THEN Succeed(i) ELSE Fail(i)
  /\ UNCHANGED <<cmd, engine, tsVars, sandbox, installPhase, pendingFiles, testFiles,
                 bbtPhase, bundlerCalls, testBundle, appBundler, webJs, webMinJs,
                 logged, launched, browserResult, cbCalls, otherVars>>

----------------------------------------------------------------------------
(* build-browser-test *)

\* The async function returns the stream inside a promise.  A stream is no
\* thenable, so the promise is fulfilled in the turn the function is called in:
\* gulp gets the completion signal while the pipeline has not read one file.
BuildBrowserTest(i) ==
  /\ CanStart(i, "build-browser-test")
  /\ Succeed(i)
  /\ testFiles' = <<>>
  /\ \E n \in 0..MaxTestFiles : pendingFiles' = [k \in 1..n |-> k]
  /\ bbtPhase' = "discovering"
  /\ UNCHANGED <<cmd, engine, tsVars, sandbox, installPhase, serverResult, bundlerCalls,
                 testBundle, appBundler, webJs, webMinJs, logged, launched,
                 browserResult, cbCalls, otherVars>>

\* function (file, enc, cb) { testFiles.push(file.path); cb() }
DiscoverFile ==
  /\ exit = NoExit
  /\ bbtPhase = "discovering"
  /\ pendingFiles # <<>>
  /\ testFiles' = Append(testFiles, Head(pendingFiles))
  /\ pendingFiles' = Tail(pendingFiles)
  /\ UNCHANGED <<cmd, engine, st, exit, tsVars, sandbox, installPhase, serverResult, bbtPhase,
                 bundlerCalls, testBundle, appBundler, webJs, webMinJs, logged,
                 launched, browserResult, cbCalls, otherVars>>

\* a step that hands the list on with every file it is given
flushPerFile(pending) == TRUE

\* through2 calls the flush function when gulp.src has emitted its last file
endOfStream(pending) == pending = <<>>

\* end of stream: this.push(testFiles), and the next step calls browserify on it
DiscoverEnd ==
  /\ exit = NoExit
  /\ bbtPhase = "discovering"
  /\ endOfStream(pendingFiles)
  /\ bundlerCalls' = Append(bundlerCalls, testFiles)
  /\ bbtPhase' = "bundling"
  /\ UNCHANGED <<cmd, engine, st, exit, tsVars, sandbox, installPhase, serverResult,
                 pendingFiles, testFiles, testBundle, appBundler, webJs, webMinJs,
                 logged, launched, browserResult, cbCalls, otherVars>>

\* the bundle reaches gulp.dest(browserOutput), or .on('error', log.error) runs
TestBundleEnd(ok) ==
  /\ exit = NoExit
  /\ bbtPhase = "bundling"
  /\ IF ok
       THEN testBundle' = "written" /\ bbtPhase' = "written" /\ UNCHANGED logged
       ELSE logged' = logged + 1 /\ bbtPhase' = "error" /\ UNCHANGED testBundle
  /\ UNCHANGED <<cmd, engine, st, exit, tsVars, sandbox, installPhase, serverResult,
                 pendingFiles, testFiles, bundlerCalls, appBundler, webJs, webMinJs,
                 launched, browserResult, cbCalls, otherVars>>

----------------------------------------------------------------------------
(* build-browser *)

\* Each await is given a stream, which is no thenable: the async function runs
\* to its end and fulfils its promise before the bundle stream has emitted
\* anything.
BuildBrowser(i) ==
  /\ CanStart(i, "build-browser")
  /\ Succeed(i)
  /\ appBundler' = "bundling"
  /\ UNCHANGED <<cmd, engine, tsVars, sandbox, installPhase, serverResult, pendingFiles,
                 testFiles, bbtPhase, bundlerCalls, testBundle, webJs, webMinJs,
                 logged, launched, browserResult, cbCalls, otherVars>>

\* the bundle stream ends, or emits 'error' to its two log.error listeners
AppBundleEnd(ok) ==
  /\ exit = NoExit
  /\ appBundler = "bundling"
  /\ IF ok
       THEN appBundler' = "ended" /\ UNCHANGED logged
       ELSE appBundler' = "error" /\ logged' = logged + 2
  /\ UNCHANGED <<cmd, engine, st, exit, tsVars, sandbox, installPhase, serverResult,
                 pendingFiles, testFiles, bbtPhase, bundlerCalls, testBundle, webJs,
                 webMinJs, launched, browserResult, cbCalls, otherVars>>

\* .pipe(source('neo4j-web.js')).pipe(gulp.dest(browserOutput))
WriteWebJs ==
  /\ exit = NoExit
  /\ appBundler = "ended"
  /\ webJs = "absent"
  /\ webJs' = "written"
  /\ UNCHANGED <<cmd, engine, st, exit, tsVars, sandbox, installPhase, serverResult,
                 pendingFiles, testFiles, bbtPhase, bundlerCalls, testBundle,
                 appBundler, webMinJs, logged, launched, browserResult, cbCalls,
                 otherVars>>

\* .pipe(source('neo4j-web.min.js')).pipe(buffer()).pipe(uglify()).pipe(gulp.dest(...))
WriteWebMinJs ==
  /\ exit = NoExit
  /\ appBundler = "ended"
  /\ webMinJs = "absent"
  /\ webMinJs' = "written"
  /\ UNCHANGED <<cmd, engine, st, exit, tsVars, sandbox, installPhase, serverResult,
                 pendingFiles, testFiles, bbtPhase, bundlerCalls, testBundle,
                 appBundler, webJs, logged, launched, browserResult, cbCalls, otherVars>>

----------------------------------------------------------------------------
(* run-browser-test *)

\* runKarma(browser, cb): new karma.Server(...).start()
runKarma(browser_, i) ==
  /\ Begin(i)
  /\ launched' = launched \cup {browser_}
  /\ UNCHANGED <<cmd, engine, tsVars, sandbox, installPhase, serverResult, pendingFiles,
                 testFiles, bbtPhase, bundlerCalls, testBundle, appBundler, webJs,
                 webMinJs, logged, browserResult, cbCalls, otherVars>>

RunBrowserTestChrome(i) ==
  /\ CanStart(i, "run-browser-test-chrome")
  /\ runKarma("chrome", i)

RunBrowserTestFirefox(i) ==
  /\ CanStart(i, "run-browser-test-firefox")
  /\ runKarma("firefox", i)

RunBrowserTestEdge(i) ==
  /\ CanStart(i, "run-browser-test-edge")
  /\ runKarma("edge", i)

RunBrowserTestIe(i) ==
  /\ CanStart(i, "run-browser-test-ie")
  /\ runKarma("ie", i)

\* a callback that completes the task whatever the exit code is
karmaCallbackAlwaysCb(exitCode) == "cb"

\* a callback with the two branches swapped
karmaCallbackSwapped(exitCode) == IF exitCode # 0 THEN "cb" ELSE "exit"

\* function (exitCode) { exitCode ? process.exit(exitCode) : cb() }
karmaCallback(exitCode) == IF exitCode # 0 THEN "exit" ELSE "cb"

KarmaExit(i, exitCode) ==
  /\ \E b \in Engines : Running(i, karmaTask(b))
  /\ browserResult' = exitCode
  /\ IF karmaCallback(exitCode) = "exit"
       THEN exit' = ExitStatus(exitCode) /\ UNCHANGED <<st, cbCalls>>
       ELSE Succeed(i) /\ cbCalls' = cbCalls + 1
  /\ UNCHANGED <<cmd, engine, tsVars, sandbox, installPhase, serverResult, pendingFiles,
                 testFiles, bbtPhase, bundlerCalls, testBundle, appBundler, webJs,
                 webMinJs, logged, launched, otherVars>>

----------------------------------------------------------------------------
(* The end of the process *)

\* no stream of a builder has work left
Quiescent ==
  /\ bbtPhase \notin {"discovering", "bundling"}
  /\ appBundler # "bundling"
  /\ appBundler = "ended" => (webJs = "written" /\ webMinJs = "written")

\* every task function is done and the event loop is empty: node exits with 0
ProcessEnd ==
  /\ exit = NoExit
  /\ cmd \in Commands
  /\ \A i \in DOMAIN st : st[i] = "done"
  /\ Quiescent
  /\ exit' = 0
  /\ UNCHANGED <<cmd, engine, st, tsVars, sandbox, installPhase, serverResult, pendingFiles,
                 testFiles, bbtPhase, bundlerCalls, testBundle, appBundler, webJs,
                 webMinJs, logged, launched, browserResult, cbCalls, otherVars>>

Next ==
  \/ \E i \in DOMAIN st : RunTsDeclarationTests(i)
  \/ \E i \in DOMAIN st : TsError(i)
  \/ \E i \in DOMAIN st : TsFinish(i)
  \/ \E i \in DOMAIN st : TsDestEnd(i)
  \/ \E i \in DOMAIN st : Nodejs(i)
  \/ \E i \in DOMAIN st, ok \in BOOLEAN : NodejsEnd(i, ok)
  \/ \E i \in DOMAIN st : InstallDriverIntoSandbox(i)
  \/ \E i \in DOMAIN st : WritePackageJson(i)
  \/ \E i \in DOMAIN st, ok \in BOOLEAN : Install(i, ok)
  \/ \E i \in DOMAIN st : TestNodejs(i)
  \/ \E i \in DOMAIN st, ok \in BOOLEAN : JasmineEnd(i, ok)
  \/ \E i \in DOMAIN st : BuildBrowserTest(i)
  \/ DiscoverFile
  \/ DiscoverEnd
  \/ \E ok \in BOOLEAN : TestBundleEnd(ok)
  \/ \E i \in DOMAIN st : BuildBrowser(i)
  \/ \E ok \in BOOLEAN : AppBundleEnd(ok)
  \/ WriteWebJs
  \/ WriteWebMinJs
  \/ \E i \in DOMAIN st : RunBrowserTestChrome(i)
  \/ \E i \in DOMAIN st : RunBrowserTestFirefox(i)
  \/ \E i \in DOMAIN st : RunBrowserTestEdge(i)
  \/ \E i \in DOMAIN st : RunBrowserTestIe(i)
  \/ \E i \in DOMAIN st, exitCode \in 0..MaxKarmaExit : KarmaExit(i, exitCode)
  \/ ProcessEnd

Spec == Init /\ [][Next]_vars

----------------------------------------------------------------------------
(* browserifyTransformNodeToBrowserRequire *)

nodeRequire == <<"/", "n", "o", "d", "e">>

browserRequire == <<"/", "b", "r", "o", "w", "s", "e", "r">>

\* the pieces the module references of the model are put together from
Frags == { nodeRequire,
           browserRequire,
           <<"/", "n", "o", "d">>,
           <<"n", "o", "d", "e">>,
           <<"e">>,
           <<"/", "x">>,
           <<".">> }

RECURSIVE RefsOf(_)
RefsOf(n) ==
  IF n = 0 THEN {<<>>}
  ELSE LET shorter == RefsOf(n - 1)
       IN shorter \cup {r \o f : r \in shorter, f \in Frags}

\* the module references a require call of the bundled sources may hold
Refs == RefsOf(MaxFrags)

\* String.prototype.slice(begin) for begin < 0: the last -begin characters
slice(str, begin) ==
  LET from == IF Len(str) + begin < 0 THEN 0 ELSE Len(str) + begin
  IN SubSeq(str, from + 1, Len(str))

\* the positions at which pattern occurs in str
Occurrences(str, pattern) ==
  {k \in 1..(Len(str) - Len(pattern) + 1) :
     SubSeq(str, k, k + Len(pattern) - 1) = pattern}

Min(S) == CHOOSE x \in S : \A y \in S : x <= y

\* String.prototype.replace(pattern, replacement) with a string pattern:
\* the first occurrence is replaced
replace(str, pattern, replacement) ==
  IF Occurrences(str, pattern) = {} THEN str
  ELSE LET k == Min(Occurrences(str, pattern))
       IN SubSeq(str, 1, k - 1) \o replacement
            \o SubSeq(str, k + Len(pattern), Len(str))

\* a test for '/node' anywhere in the reference
containsNodeRequire(arg) == Occurrences(arg, nodeRequire) # {}

\* requireArg.slice(-nodeRequire.length) === nodeRequire
endsWithNodeRequire(arg) == slice(arg, -Len(nodeRequire)) = nodeRequire

requireOpen == <<"r", "e", "q", "u", "i", "r", "e", "(", "'">>

requireClose == <<"'", ")">>

\* The transform function: what it hands to cb.  cb() leaves the require call
\* as it is, cb(null, text) puts text in its place.
nodeToBrowserRequire(arg) ==
  IF endsWithNodeRequire(arg)
    THEN [replaced |-> TRUE,
          text |-> requireOpen \o replace(arg, nodeRequire, browserRequire)
                     \o requireClose]
    ELSE [replaced |-> FALSE, text |-> <<>>]

\* the module reference of the call require('...') as the bundler reads it
requireCallArg(text) == SubSeq(text, Len(requireOpen) + 1, Len(text) - Len(requireClose))

\* makeRequireTransform: the module reference the require call holds afterwards
Transformed(arg) ==
  LET r == nodeToBrowserRequire(arg)
  IN IF r.replaced THEN requireCallArg(r.text) ELSE arg

IdleGulp ==
  /\ cmd = "none"
  /\ st = <<>>
  /\ exit = NoExit
  /\ failed = FALSE
  /\ tsDiags = 0
  /\ tsPhase = "idle"
  /\ nDiags = 0
  /\ sandbox = {}
  /\ installPhase = "idle"
  /\ serverResult = "none"
  /\ pendingFiles = <<>>
  /\ testFiles = <<>>
  /\ bbtPhase = "idle"
  /\ bundlerCalls = <<>>
  /\ testBundle = "absent"
  /\ appBundler = "idle"
  /\ webJs = "absent"
  /\ webMinJs = "absent"
  /\ logged = 0
  /\ launched = {}
  /\ browserResult = NoExit
  /\ cbCalls = 0
  /\ engine = "none"

InitTransform ==
  /\ IdleGulp
  /\ IdleSet
  /\ IdleGlob
  /\ requireArg \in Refs
  /\ out1 = <<>>
  /\ out2 = <<>>
  /\ applied = 0
  /\ libRef = <<>>
  /\ libBuilt = FALSE

\* the bundler runs the transform on a require call of a source file
ApplyTransform ==
  /\ applied = 0
  /\ out1' = Transformed(requireArg)
  /\ applied' = 1
  /\ UNCHANGED <<requireArg, out2, libRef, libBuilt, gulpVars, setVars, globVars>>

\* the transform runs on the require call it has produced
ReapplyTransform ==
  /\ applied = 1
  /\ out2' = Transformed(out1)
  /\ applied' = 2
  /\ UNCHANGED <<requireArg, out1, libRef, libBuilt, gulpVars, setVars, globVars>>

\* buildNode: gulp.src(...).pipe(babel(babelConfig())) has no require transform;
\* babel writes the require call with the module reference of the source
BuildNodeRequire ==
  /\ ~libBuilt
  /\ libRef' = requireArg
  /\ libBuilt' = TRUE
  /\ UNCHANGED <<requireArg, out1, out2, applied, gulpVars, setVars, globVars>>

NextTransform == ApplyTransform \/ ReapplyTransform \/ BuildNodeRequire

SpecTransform == InitTransform /\ [][NextTransform]_vars

----------------------------------------------------------------------------
(* Properties *)

Started(i) == st[i] # "pending"

PositionsOf(name) == {i \in DOMAIN st : Task(i) = name}

\* a suffix test written out on the characters
HasSuffix(str, suffix) ==
  /\ Len(str) >= Len(suffix)
  /\ \A k \in 1..Len(suffix) : str[Len(str) - Len(suffix) + k] = suffix[k]

\* C1: a task function is started only when every function before it in the
\* chain of the command has signalled completion; in `test` the declaration
\* check is done before the server test chain starts, and the server test
\* chain is done before the browser test chain starts.
C1_StartAfterCompletion ==
  /\ \A i \in DOMAIN st : Started(i) => \A j \in 1..(i - 1) : st[j] = "done"
  /\ cmd = "test" =>
       /\ (\E i \in 2..4 : Started(i)) => st[1] = "done"
       /\ (\E i \in 5..8 : Started(i)) => \A j \in 2..4 : st[j] = "done"

C1_Witness ==
  /\ cmd = "test"
  /\ Task(1) = "run-ts-declaration-tests"
  /\ Task(4) = "test-nodejs"
  /\ Task(5) = "nodejs"
  /\ Started(5)

\* C2: in `test-browser` the browser run is started only when
\* build-browser-test has written the test bundle and build-browser has
\* written both browser bundles.
C2_KarmaAfterBundlesWritten ==
  cmd = "test-browser" =>
    \A i \in PositionsOf("run-browser-test-firefox") :
      Started(i) =>
        /\ testBundle = "written"
        /\ webJs = "written"
        /\ webMinJs = "written"

\* C3: in one invocation no task function is started more than once.
C3_EveryTaskOnce ==
  \A name \in {Task(i) : i \in DOMAIN st} :
    Cardinality({i \in PositionsOf(name) : Started(i)}) <= 1

\* C4: a reference that ends with '/node' comes out ending with '/browser',
\* with everything before that last suffix unchanged.
C4_SuffixRewritten ==
  (applied >= 1 /\ HasSuffix(requireArg, nodeRequire)) =>
    /\ HasSuffix(out1, browserRequire)
    /\ SubSeq(out1, 1, Len(out1) - Len(browserRequire))
         = SubSeq(requireArg, 1, Len(requireArg) - Len(nodeRequire))

\* C5: the transform applied twice gives what the transform applied once gives.
C5_Idempotent == applied = 2 => out2 = out1

\* C6: a reference that does not end with '/node' is left as it is, also when
\* '/node' occurs elsewhere in it.
C6_OthersUnchanged ==
  (applied >= 1 /\ ~HasSuffix(requireArg, nodeRequire)) => out1 = requireArg

C6_Witness ==
  /\ applied >= 1
  /\ ~HasSuffix(requireArg, nodeRequire)
  /\ Occurrences(requireArg, nodeRequire) # {}
  /\ out1 = requireArg

\* C7: when the install step of the sandbox fails, the jasmine run of
\* test-nodejs is never started, nor is any later task function of the chain.
C7_InstallFailureStopsChain ==
  installPhase = "failed" =>
    /\ \A i \in PositionsOf("test-nodejs") : ~Started(i)
    /\ \A i \in PositionsOf("install-driver-into-sandbox") :
         \A j \in DOMAIN st : j > i => ~Started(j)

C7_Witness ==
  /\ cmd = "test"
  /\ installPhase = "failed"
  /\ st[3] = "error"
  /\ exit = 1

\* C8: a module reference that cannot be resolved while bundling fails the
\* builder task, keeps run-browser-test from starting and makes the exit
\* status non-zero; it is not just logged.
C8_ResolutionErrorFatal ==
  /\ bbtPhase = "error" =>
       /\ \A i \in PositionsOf("build-browser-test") : st[i] = "error"
       /\ \A i \in PositionsOf("run-browser-test-firefox") : ~Started(i)
       /\ exit # 0
  /\ appBundler = "error" =>
       /\ \A i \in PositionsOf("build-browser") : st[i] = "error"
       /\ \A i \in PositionsOf("run-browser-test-firefox") : ~Started(i)
       /\ exit # 0

\* C9: with a diagnostic the process exits with a non-zero status when the
\* TypeScript stream finishes, and no other task function of `test` is ever
\* started; without a diagnostic the check does not exit the process and the
\* task completes.
C9_DiagnosticIsFatal ==
  cmd = "test" =>
    /\ (nDiags > 0 /\ tsPhase \notin {"idle", "checking"}) =>
         (tsPhase = "exited" /\ exit \notin {NoExit, 0})
    /\ nDiags > 0 => \A i \in 2..Len(st) : ~Started(i)
    /\ (nDiags = 0 /\ tsPhase \notin {"idle", "checking"}) =>
         /\ tsPhase \in {"writing", "written"}
         /\ tsPhase = "writing" => exit = NoExit
         /\ tsPhase = "written" => st[1] = "done"

C9_Witness ==
  /\ cmd = "test"
  /\ nDiags > 0
  /\ tsDiags = nDiags
  /\ failed
  /\ tsPhase = "exited"
  /\ exit = 1

\* C10: `test` ends with exit status 0 only when the declaration check had no
\* diagnostic, the server test run passed and the browser run passed; a result
\* that is no pass makes the exit status non-zero.
C10_ZeroOnlyIfAllPass ==
  cmd = "test" =>
    /\ exit = 0 =>
         /\ nDiags = 0 /\ tsPhase = "written"
         /\ serverResult = "pass"
         /\ browserResult = 0
    /\ (exit # NoExit /\ (tsDiags > 0 \/ serverResult = "fail" \/ browserResult > 0))
         => exit # 0

C10_Witness ==
  /\ cmd = "test"
  /\ exit = 0
  /\ serverResult = "pass"
  /\ browserResult = 0

\* C11: a non-zero exit code of the karma server ends the process with that
\* code and the completion callback of the task is never called; with exit
\* code zero the callback is called exactly once and `test-browser` ends with
\* exit status 0.
C11_KarmaExitCode ==
  /\ browserResult > 0 => (exit = browserResult /\ cbCalls = 0)
  /\ browserResult = 0 =>
       /\ cbCalls = 1
       /\ \A i \in DOMAIN st : (\E b \in Engines : Task(i) = karmaTask(b)) => st[i] = "done"
       /\ (cmd = "test-browser" /\ exit # NoExit) => exit = 0
  /\ browserResult = NoExit => cbCalls = 0

C11_Witness ==
  /\ cmd = "test-browser"
  /\ launched = {"firefox"}
  /\ browserResult = 0
  /\ cbCalls = 1
  /\ exit = 0

CheckerInProgress ==
  \E i \in PositionsOf("run-ts-declaration-tests") : st[i] = "running"

BuilderInProgress ==
  \/ \E i \in PositionsOf("nodejs") : st[i] = "running"
  \/ bbtPhase \in {"discovering", "bundling"}
  \/ appBundler = "bundling"
  \/ appBundler = "ended" /\ (webJs = "absent" \/ webMinJs = "absent")

\* C14 (as claimed): the declaration check and the builders are not
\* serialized: while the check is in progress in `test`, a builder task can be
\* started, which gives a state with both in progress.
C14_NotSerialized ==
  (cmd = "test" /\ CheckerInProgress) =>
    ENABLED (\E i \in DOMAIN st : Nodejs(i) \/ BuildBrowserTest(i) \/ BuildBrowser(i))

\* C14 (amended): in `test` the declaration check and the builder tasks are
\* serialized by gulp.series: no builder is in progress or has started while
\* the declaration check is in progress.
C14_CheckerBeforeBuilders ==
  cmd = "test" =>
    /\ ~(CheckerInProgress /\ BuilderInProgress)
    /\ (BuilderInProgress \/ \E i \in 2..Len(st) : Started(i)) =>
         \A i \in PositionsOf("run-ts-declaration-tests") : st[i] = "done"

C14_Witness ==
  /\ cmd = "test"
  /\ st[1] = "done"
  /\ tsPhase = "written"
  /\ st[2] = "running"
  /\ BuilderInProgress

\* C15 (as claimed): `test-browser` starts karma for the selected engine and
\* for no other.
C15_SelectedEngineOnly ==
  (cmd = "test-browser" /\ launched # {}) => launched = {engine}

\* C15 (amended): the task run-browser-test-<engine> starts karma for exactly
\* that engine; `test-browser`, `test` and `run-browser-test` start karma for
\* firefox only, whatever engine is selected.
C15_EngineOfTask ==
  /\ \A b \in Engines : cmd = karmaTask(b) =>
       /\ launched \subseteq {b}
       /\ st[1] # "pending" => launched = {b}
  /\ cmd \in {"test-browser", "test", "run-browser-test"} =>
       /\ launched \subseteq {"firefox"}
       /\ st[Len(st)] # "pending" => launched = {"firefox"}
  /\ cmd \notin {karmaTask(b) : b \in Engines} \cup {"test-browser", "test", "run-browser-test"}
       => launched = {}

C15_Witness ==
  /\ cmd = "test-browser"
  /\ engine = "chrome"
  /\ launched = {"firefox"}

\* C18: build-browser-test calls the bundler at most once, only when the
\* discovery stream has ended, with every discovered test file exactly once in
\* the order of discovery; while files are being discovered no bundling has
\* started.
C18_BundleOnceAfterDiscovery ==
  /\ Len(bundlerCalls) <= 1
  /\ bbtPhase \in {"idle", "discovering"} => bundlerCalls = <<>>
  /\ bbtPhase \in {"bundling", "written", "error"} =>
       /\ Len(bundlerCalls) = 1
       /\ pendingFiles = <<>>
       /\ bundlerCalls[1] = testFiles
       /\ \A k \in 1..Len(testFiles) : testFiles[k] = k
  /\ bbtPhase = "discovering" =>
       /\ \A k \in 1..Len(testFiles) : testFiles[k] = k
       /\ \A k \in 1..Len(pendingFiles) : pendingFiles[k] = Len(testFiles) + k

C18_Witness ==
  /\ bbtPhase = "bundling"
  /\ bundlerCalls = << <<1, 2>> >>
  /\ testFiles = <<1, 2>>

\* C19: the install step runs only when the nodejs build has completed, the
\* sandbox was emptied and after that package.json was written into it: when
\* the install starts the sandbox holds package.json and nothing left from an
\* earlier run.
C19_InstallAfterCleanDescriptor ==
  /\ installPhase # "idle" =>
       \A i \in PositionsOf("install-driver-into-sandbox") :
         /\ Started(i)
         /\ \A j \in 1..(i - 1) : st[j] = "done"
         /\ Task(i - 1) = "nodejs"
  /\ installPhase = "emptied" => sandbox = {}
  /\ installPhase = "descriptor" => sandbox = {"package.json"}
  /\ installPhase = "installed" => sandbox = {"package.json", "node_modules"}
  /\ installPhase = "failed" => sandbox = {"package.json"}

C19_Witness ==
  /\ installPhase = "installed"
  /\ "stale" \notin sandbox
  /\ "package.json" \in sandbox
  /\ "node_modules" \in sandbox

\* C16: the require transform runs on the sources of every browser artifact
\* and not on the server module tree, and afterwards no module reference of a
\* browser artifact ends with '/node'.
C16_NoNodeReferenceInBrowserArtifacts ==
  /\ applied >= 1 => ~HasSuffix(out1, nodeRequire)
  /\ libBuilt => libRef = requireArg

----------------------------------------------------------------------------
(* set: the version of the project *)

\* most fragments a --version value is put together from
MaxVersionFrags == 4

\* the token of src/version.js that stands for the version
placeholder == <<"0", ".", "0", ".", "0", "-", "d", "e", "v">>

versionFile == "src/version.js"

\* the files of the working tree the model follows
FileNames == {versionFile, "package.json"}

VersionFrags == { <<"1">>, <<"0">>, <<".", "0">>, <<".">>, <<"-", "a">>, <<"v">> }

RECURSIVE VersionsOf(_)
VersionsOf(n) ==
  IF n = 0 THEN {<<>>}
  ELSE LET shorter == VersionsOf(n - 1)
       IN shorter \cup {v \o f : v \in shorter, f \in VersionFrags}

\* the values --version may have
Versions == VersionsOf(MaxVersionFrags) \cup {placeholder, placeholder \o <<"-", "a">>}

codeBefore == <<"v", "=", "'">>

codeAfter == <<"'", ";">>

\* what src/version.js may hold: the placeholder once, never (a version is
\* set already), twice, or in two pieces
VersionFileContents ==
  { codeBefore \o placeholder \o codeAfter,
    codeBefore \o <<"1", ".", "0", ".", "0">> \o codeAfter,
    codeBefore \o placeholder \o codeAfter \o codeBefore \o placeholder \o codeAfter,
    codeBefore \o SubSeq(placeholder, 1, 5) \o codeAfter \o codeBefore
      \o SubSeq(placeholder, 6, 9) \o codeAfter }

packageJson == <<"{">> \o placeholder \o <<"}">>

IsDigit(c) == c \in {"0", "1", "2", "3", "4", "5", "6", "7", "8", "9"}

IsLetterOrHyphen(c) == c \in {"a", "d", "e", "v", "x", "-"}

\* the parts of str between the occurrences of the character sep
RECURSIVE SplitOn(_, _)
SplitOn(str, sep) ==
  IF \A k \in 1..Len(str) : str[k] # sep THEN <<str>>
  ELSE LET k == Min({j \in 1..Len(str) : str[j] = sep})
       IN <<SubSeq(str, 1, k - 1)>> \o SplitOn(SubSeq(str, k + 1, Len(str)), sep)

\* semver NUMERICIDENTIFIER: 0|[1-9]\d*
IsNumericIdentifier(str) ==
  /\ str # <<>>
  /\ \A k \in 1..Len(str) : IsDigit(str[k])
  /\ Len(str) > 1 => str[1] # "0"

\* semver PRERELEASEIDENTIFIER: a numeric identifier or \d*[a-zA-Z-][a-zA-Z0-9-]*
IsPrereleaseIdentifier(str) ==
  /\ str # <<>>
  /\ \A k \in 1..Len(str) : IsDigit(str[k]) \/ IsLetterOrHyphen(str[k])
  /\ IsNumericIdentifier(str) \/ \E k \in 1..Len(str) : IsLetterOrHyphen(str[k])

\* semver FULL: ^v?MAINVERSION(-PRERELEASE)?$ on the characters of the model
MatchesFull(str) ==
  LET plain == IF str # <<>> /\ str[1] = "v" THEN Tail(str) ELSE str
      dashes == {k \in 1..Len(plain) : plain[k] = "-"}
      main == IF dashes = {} THEN plain ELSE SubSeq(plain, 1, Min(dashes) - 1)
      pre == IF dashes = {} THEN <<>> ELSE SubSeq(plain, Min(dashes) + 1, Len(plain))
      nums == SplitOn(main, ".")
      ids == SplitOn(pre, ".")
  IN /\ Len(nums) = 3
     /\ \A k \in 1..3 : IsNumericIdentifier(nums[k])
     /\ dashes # {} => \A k \in 1..Len(ids) : IsPrereleaseIdentifier(ids[k])

\* a check that takes every given value
acceptsAny(given, v) == given

\* semver.valid(version) is not null; undefined is no version
semverValid(given, v) == given /\ MatchesFull(v)

\* gulp-replace with a string to search for: split(search).join(replacement)
RECURSIVE replaceAll(_, _, _)
replaceAll(str, search, replacement) ==
  IF Occurrences(str, search) = {} THEN str
  ELSE LET k == Min(Occurrences(str, search))
       IN SubSeq(str, 1, k - 1) \o replacement
            \o replaceAll(SubSeq(str, k + Len(search), Len(str)), search, replacement)

\* a replacement of the first occurrence only
replaceFirstInFile(content, v) == replace(content, placeholder, v)

\* .pipe(replace('0.0.0-dev', version))
replaceInFile(content, v) == replaceAll(content, placeholder, v)

InitSet ==
  /\ IdleGulp
  /\ IdleTransform
  /\ IdleGlob
  /\ versionGiven \in BOOLEAN
  /\ version \in (IF versionGiven THEN Versions ELSE {<<>>})
  /\ \E c \in VersionFileContents :
       files = [f \in FileNames |-> IF f = versionFile THEN c ELSE packageJson]
  /\ files0 = files
  /\ staged = <<>>
  /\ touched = {}
  /\ setPhase = "idle"

\* the task function: the version is checked, then gulp.src reads src/version.js
Set ==
  /\ setPhase = "idle"
  /\ IF ~semverValid(versionGiven, version)
       THEN /\ setPhase' = "thrown"
            /\ UNCHANGED <<staged, touched>>
       ELSE /\ setPhase' = "read"
            /\ staged' = [f \in {versionFile} |-> files[f]]
            /\ touched' = touched \cup {versionFile}
  /\ UNCHANGED <<version, versionGiven, files, files0, gulpVars, transformVars,
                 globVars>>

\* .pipe(replace('0.0.0-dev', version))
SetReplace ==
  /\ setPhase = "read"
  /\ staged' = [f \in DOMAIN staged |-> replaceInFile(staged[f], version)]
  /\ setPhase' = "replaced"
  /\ UNCHANGED <<version, versionGiven, files, files0, touched, gulpVars,
                 transformVars, globVars>>

\* .pipe(gulp.dest('./')): every file of the pipeline is written to its place
SetDest ==
  /\ setPhase = "replaced"
  /\ files' = [f \in DOMAIN files |-> IF f \in DOMAIN staged THEN staged[f] ELSE files[f]]
  /\ touched' = touched \cup DOMAIN staged
  /\ setPhase' = "written"
  /\ UNCHANGED <<version, versionGiven, files0, staged, gulpVars, transformVars,
                 globVars>>

NextSet == Set \/ SetReplace \/ SetDest

SpecSet == InitSet /\ [][NextSet]_vars

\* the number of places at which the placeholder stands in a content
CountPlaceholder(content) == Cardinality(Occurrences(content, placeholder))

\* C12: with --version missing or no valid semantic version the task fails
\* before it reads or writes a file: every file is as it was.
C12_InvalidVersionTouchesNothing ==
  (setPhase # "idle" /\ (~versionGiven \/ ~MatchesFull(version))) =>
    /\ setPhase = "thrown"
    /\ touched = {}
    /\ files = files0

C12_Witness ==
  /\ setPhase = "thrown"
  /\ versionGiven
  /\ version = <<"1", ".", "0">>
  /\ CountPlaceholder(files[versionFile]) = 1

----------------------------------------------------------------------------
(* Test discovery: the globs of build-browser-test and test-nodejs *)

\* most directories between ./test and a file
MaxDepth == 2

DirNames == {"node", "browser", "internal"}

dotJs == <<".", "j", "s">>

dotTestJs == <<".", "t", "e", "s", "t">> \o dotJs

examples == <<"e", "x", "a", "m", "p", "l", "e", "s">>

\* file names: test files, the examples test, plain scripts
FileStems == {<<"a">>, examples, examples \o <<"a">>}

BaseNames == {stem \o ext : stem \in FileStems, ext \in {dotTestJs, dotJs}}

RECURSIVE DirsOf(_)
DirsOf(n) ==
  IF n = 0 THEN {<<>>}
  ELSE LET shorter == DirsOf(n - 1)
       IN shorter \cup {Append(ds, d) : ds \in shorter, d \in DirNames}

\* the files below ./test: the directories from ./test down, and the file name
Paths == [dirs : DirsOf(MaxDepth), base : BaseNames]

\* '*' followed by a literal: a name that ends with the literal
starThen(base, literal) == Len(base) > Len(literal) /\ slice(base, -Len(literal)) = literal

\* './test/**/!(examples).test.js': any depth, a name X.test.js with X # examples
matchesBrowserTests(p) ==
  /\ starThen(p.base, dotTestJs)
  /\ SubSeq(p.base, 1, Len(p.base) - Len(dotTestJs)) # examples

\* './test/**/*.test.js'
matchesServerTests(p) == starThen(p.base, dotTestJs)

\* './test/**/<dir>/*.js': '**' takes any directories, '*' takes no '/', so the
\* file lies in a directory named dir itself
inDir(p, dir) ==
  /\ p.dirs # <<>>
  /\ p.dirs[Len(p.dirs)] = dir
  /\ starThen(p.base, dotJs)

\* gulp.src(['./test/**/!(examples).test.js', '!./test/**/node/*.js'])
srcBuildBrowserTest(p) == matchesBrowserTests(p) /\ ~inDir(p, "node")

\* gulp.src(['./test/**/*.test.js', '!./test/**/browser/*.js'])
srcTestNodejs(p) == matchesServerTests(p) /\ ~inDir(p, "browser")

InitGlob ==
  /\ IdleGulp
  /\ IdleTransform
  /\ IdleSet
  /\ path \in Paths
  /\ srcTask = "none"
  /\ matched = FALSE

\* build-browser-test: gulp.src decides whether the file is a test entry
SrcBuildBrowserTest ==
  /\ srcTask = "none"
  /\ srcTask' = "build-browser-test"
  /\ matched' = srcBuildBrowserTest(path)
  /\ UNCHANGED <<path, gulpVars, transformVars, setVars>>

\* test-nodejs: gulp.src decides whether jasmine runs the file
SrcTestNodejs ==
  /\ srcTask = "none"
  /\ srcTask' = "test-nodejs"
  /\ matched' = srcTestNodejs(path)
  /\ UNCHANGED <<path, gulpVars, transformVars, setVars>>

NextGlob == SrcBuildBrowserTest \/ SrcTestNodejs

SpecGlob == InitGlob /\ [][NextGlob]_vars

HasDir(p, dir) == \E k \in 1..Len(p.dirs) : p.dirs[k] = dir

\* C17: no file with a directory `node` anywhere in its path is an entry of
\* the browser test bundle, and no file with a directory `browser` anywhere in
\* its path is run by the server test task.
C17_OtherEnvironmentExcluded ==
  /\ (srcTask = "build-browser-test" /\ HasDir(path, "node")) => ~matched
  /\ (srcTask = "test-nodejs" /\ HasDir(path, "browser")) => ~matched

====
